---- MODULE Spec2Model ----
(***************************************************************************)
(* Model of the partitioned parallel execution of Smoother.py:             *)
(*   PeaceDisarray.test()            (sliding-window regression, by index) *)
(*   BinanceData.download_klines()   (kline download, by calendar month)   *)
(* Python sequences are 0-based; At(s, j) reads the Python element s[j].   *)
(* Floating-point values are modelled as exact rationals <<num, den>>.     *)
(***************************************************************************)
EXTENDS Integers, Sequences, FiniteSets, TLC

VARIABLES
    op,                           \* which partitioned operation is called
    cpu_count,                    \* os.cpu_count()
    prices,                       \* PeaceDisarray.__prices
    values_to_linear_regression,  \* PeaceDisarray.__values_to_linear_regression
    regression_coefficient,       \* PeaceDisarray.regression_coefficient
    start_str, end_str,           \* download_klines(start_str, end_str)
    pc,                           \* position of the calling process
    step,                         \* test(): step
    ranges,                       \* test(): ranges
    dates,                        \* download_klines(): dates
    manager,                      \* CustomClassManager of the run
    shared_custom,                \* the shared ProgressBar
    executor,                     \* ProcessPoolExecutor of the run
    futures,                      \* chunk index -> task/future state
    dict_linear_regressions,      \* test(): insertion-ordered dict
    klines_data,                  \* download_klines(): insertion-ordered dict
    result,                       \* value returned to the caller
    error,                        \* exception raised to the caller
    new_prices,                   \* list_to_str main(): new_prices
    undistributed_price_index,    \* list_to_str main(): the index kept
    results,                      \* list_to_str main(): results
    progress_bar,                 \* list_to_str main(): the shared ProgressBar
    saved_str                     \* list_to_str main(): saved_str

vars == <<op, cpu_count, prices, values_to_linear_regression,
          regression_coefficient, start_str, end_str, pc, step, ranges, dates,
          manager, shared_custom, executor, futures, dict_linear_regressions,
          klines_data, result, error, new_prices, undistributed_price_index,
          results, progress_bar, saved_str>>

\* the locals of main() of list_to_str.py
list_to_str_vars ==
    <<new_prices, undistributed_price_index, results, progress_bar, saved_str>>

(***************************************************************************)
(* Bounds of the model                                                     *)
(***************************************************************************)
MaxN == 7          \* largest small price count
MaxCpu == 4        \* largest os.cpu_count()
MaxSlope == 2      \* slopes of the linear price shapes
BigN == 204        \* price count of the run with chunks around the batch size
MaxMonths == 2     \* longest download span, in chunks
MaxAttempts == 2   \* calls of the api callable per chunk

BATCH == 100       \* increase() is called once per 100 positions

None == "None"

\* a local that holds None or an index, and a slot that holds None or a string
NoIndex == [is_none |-> TRUE, value |-> 0]
SomeIndex(index) == [is_none |-> FALSE, value |-> index]
NoString == [is_none |-> TRUE, value |-> <<>>]
SomeString(string) == [is_none |-> FALSE, value |-> string]

(***************************************************************************)
(* Sequence helpers                                                        *)
(***************************************************************************)
At(s, j) == s[j + 1]

RECURSIVE SumSeq(_)
SumSeq(s) == IF s = <<>> THEN 0 ELSE Head(s) + SumSeq(Tail(s))

RECURSIVE Flatten(_)
Flatten(ss) == IF ss = <<>> THEN <<>> ELSE Head(ss) \o Flatten(Tail(ss))

PyRange(lo, hi) == [j \in 1..(IF hi > lo THEN hi - lo ELSE 0) |-> lo + j - 1]

\* Python dict with insertion order: a sequence of <<key, value>> pairs
Keys(d) == {d[j][1] : j \in 1..Len(d)}
Lookup(d, key) == d[CHOOSE j \in 1..Len(d) : d[j][1] = key][2]
DictPut(d, key, val) ==
    IF key \in Keys(d)
    THEN [j \in 1..Len(d) |-> IF d[j][1] = key THEN <<key, val>> ELSE d[j]]
    ELSE Append(d, <<key, val>>)

\* sorted(): the elements of a finite set of integers in ascending order
RECURSIVE Sorted(_)
Sorted(S) ==
    IF S = {} THEN <<>>
    ELSE LET m == CHOOSE x \in S : \A y \in S : x <= y
         IN  <<m>> \o Sorted(S \ {m})

(***************************************************************************)
(* Exact arithmetic standing for the float64 arithmetic of numpy           *)
(***************************************************************************)
Abs(x) == IF x < 0 THEN -x ELSE x

\* the one element of a singleton set; {e(x) : x \in {a}} evaluates the
\* the one element of a singleton: binds an operand to its value once
The(S) == CHOOSE r \in S : TRUE

RECURSIVE GCD(_, _)
GCD(a, b) == IF b = 0 THEN a ELSE The({GCD(y, x % y) : x \in {a}, y \in {b}})

\* p/q in lowest terms with a positive denominator; q = 0 is inf or nan
Rat(p, q) ==
    The({IF y = 0 THEN <<(IF x > 0 THEN 1 ELSE IF x < 0 THEN -1 ELSE 0), 0>>
         ELSE LET g == GCD(Abs(x), Abs(y))
                  s == IF y < 0 THEN -1 ELSE 1
              IN  The({<<(s * x) \div d, (s * y) \div d>> : d \in {g}})
         : x \in {p}, y \in {q}})

RatAdd(a, b) ==
    The({Rat(x[1] * y[2] + y[1] * x[2], x[2] * y[2]) : x \in {a}, y \in {b}})
RatSub(a, b) ==
    The({Rat(x[1] * y[2] - y[1] * x[2], x[2] * y[2]) : x \in {a}, y \in {b}})
RatMul(a, b) ==
    The({Rat(x[1] * y[1], x[2] * y[2]) : x \in {a}, y \in {b}})
RatDiv(a, b) ==
    The({Rat(x[1] * y[2], x[2] * y[1]) : x \in {a}, y \in {b}})

(***************************************************************************)
(* LinearRegression                                                        *)
(***************************************************************************)
LR_xConstant(data) == [j \in 1..Len(data) |-> 0]

\* the dict built from enumerate(window): keys 0..W-1 and the window values
LR_x(data) == [j \in 1..Len(data) |-> j - 1]
LR_y(data) == data
LR_n(data) == Len(LR_x(data))
LR_mean_x(data) == Rat(SumSeq(LR_x(data)), LR_n(data))
LR_mean_y(data) == Rat(SumSeq(LR_y(data)), LR_n(data))

SumProd(u, v) == SumSeq([j \in 1..Len(u) |-> u[j] * v[j]])

SlopeNumerator(data) ==
    RatSub(Rat(SumProd(LR_y(data), LR_x(data)), 1),
           RatMul(RatMul(Rat(LR_n(data), 1), LR_mean_y(data)), LR_mean_x(data)))

SlopeDenominatorNoCount(data) ==
    RatSub(Rat(SumProd(LR_x(data), LR_x(data)), 1),
           RatMul(LR_mean_x(data), LR_mean_x(data)))

SlopeDenominator(data) ==
    RatSub(Rat(SumProd(LR_x(data), LR_x(data)), 1),
           RatMul(RatMul(Rat(LR_n(data), 1), LR_mean_x(data)), LR_mean_x(data)))

Coefficient_a(data) == RatDiv(SlopeNumerator(data), SlopeDenominator(data))

\* self.a is the slope computed by the constructor
LR_a(data) == Coefficient_a(data)

Coefficient_b(data) ==
    RatSub(LR_mean_y(data), RatMul(LR_a(data), LR_mean_x(data)))

coefficientDefaultOnly(data, coeff) ==
    RatAdd(Coefficient_a(data), Coefficient_b(data))

coefficient(data, coeff) ==
    CASE coeff = "a"  -> Coefficient_a(data)
      [] coeff = "b"  -> Coefficient_b(data)
      [] coeff = "ab" -> RatAdd(Coefficient_a(data), Coefficient_b(data))

(***************************************************************************)
(* PeaceDisarray.test(): stride and ranges                                 *)
(***************************************************************************)
StrideDivisorNoOddBranch(cpus) == cpus

\* the divisor of the stride: cpu_count when even, cpu_count - 1 when odd
StrideDivisor(cpus) == IF cpus % 2 = 0 THEN cpus ELSE cpus - 1

StrideCeil(n, cpus) ==
    (n + StrideDivisor(cpus) - 1) \div StrideDivisor(cpus)

Stride(n, cpus) == n \div StrideDivisor(cpus)

\* a partition whose last chunk takes the remainder instead of a further chunk
RECURSIVE BuildRangesAbsorbing(_, _, _)
BuildRangesAbsorbing(index, n, stp) ==
    IF index >= n THEN <<>>
    ELSE IF index + 2 * stp > n THEN <<PyRange(index, n)>>
    ELSE <<PyRange(index, index + stp)>>
         \o BuildRangesAbsorbing(index + stp, n, stp)

\* the loop over range(start, n, stp), stp > 0
RECURSIVE BuildRangesFrom(_, _, _)
BuildRangesFrom(index, n, stp) ==
    IF index >= n THEN <<>>
    ELSE <<(IF index + stp >= n THEN PyRange(index, n)
                                ELSE PyRange(index, index + stp))>>
         \o BuildRangesFrom(index + stp, n, stp)

\* the window of the regression at a global position
Window(p, index, w) == [i \in 1..w |-> At(p, index - w + (i - 1))]

MergeInsertionOrder(d) == Flatten([j \in 1..Len(d) |-> d[j][2]])

\* the final comprehension of test(): values by ascending key
MergeSorted(d) ==
    LET keys == Sorted(Keys(d))
    IN  Flatten([j \in 1..Len(keys) |-> Lookup(d, keys[j])])

(***************************************************************************)
(* BinanceData.get_monthly_tuples: dates as "%d %b %Y" strings             *)
(***************************************************************************)
MonthAbbr == <<"Jan", "Feb", "Mar", "Apr", "May", "Jun",
               "Jul", "Aug", "Sep", "Oct", "Nov", "Dec">>

\* a date string is <<day, month abbreviation, year>>, in the format's order
strptime(date_str) ==
    [year  |-> date_str[3],
     month |-> CHOOSE m \in 1..12 : MonthAbbr[m] = date_str[2],
     day   |-> date_str[1]]

strftime(date) == <<date.day, MonthAbbr[date.month], date.year>>

IsLeap(y) == (y % 4 = 0 /\ y % 100 # 0) \/ y % 400 = 0

DaysInMonth(y, m) ==
    IF m = 2 THEN (IF IsLeap(y) THEN 29 ELSE 28)
    ELSE IF m \in {4, 6, 9, 11} THEN 30 ELSE 31

\* date + relativedelta(months=1): the day is cut to the new month's length
AddMonth(date) ==
    LET y == IF date.month = 12 THEN date.year + 1 ELSE date.year
        m == IF date.month = 12 THEN 1 ELSE date.month + 1
        dim == DaysInMonth(y, m)
    IN  [year |-> y, month |-> m,
         day |-> IF date.day > dim THEN dim ELSE date.day]

DateLT(a, b) ==
    \/ a.year < b.year
    \/ a.year = b.year /\ a.month < b.month
    \/ a.year = b.year /\ a.month = b.month /\ a.day < b.day

RECURSIVE MonthlyTuplesFrom(_, _)
MonthlyTuplesFrom(current_date, end_date) ==
    IF ~DateLT(current_date, end_date) THEN <<>>
    ELSE LET next_date == AddMonth(current_date)
         IN  << <<strftime(current_date), strftime(next_date)>> >>
             \o MonthlyTuplesFrom(next_date, end_date)

get_monthly_tuples_from_first(s_str, e_str) ==
    MonthlyTuplesFrom([strptime(s_str) EXCEPT !.day = 1], strptime(e_str))

get_monthly_tuples(s_str, e_str) ==
    MonthlyTuplesFrom(strptime(s_str), strptime(e_str))

\* the records client.get_historical_klines returns for a date range
Klines(s_str, e_str) == << <<s_str, e_str>> >>

(***************************************************************************)
(* Inputs                                                                  *)
(***************************************************************************)
LinearPrices(n, m, c) == [j \in 1..n |-> m * (j - 1) + c]
CurvedPrices(n) == [j \in 1..n |-> ((j - 1) * (j - 1)) % 5]

PriceTuples(n) ==
    {LinearPrices(n, m, c) : m \in 0..MaxSlope, c \in {3}} \cup {CurvedPrices(n)}

Coefficients == {"a", "b", "ab"}

DateStrs ==
    {ds \in ({1, 31} \X {"Jan", "Feb", "Dec"} \X {2023, 2024}) :
        ds[1] <= DaysInMonth(ds[3], strptime(ds).month)}

NoResult == [returned |-> FALSE, value |-> <<>>]
NoError == [raised |-> FALSE, type |-> None]
NoProgressBar == [created |-> FALSE, n |-> 0, total |-> 0]

InitCommon ==
    /\ step = 0
    /\ ranges = <<>>
    /\ dates = <<>>
    /\ manager = "none"
    /\ shared_custom = NoProgressBar
    /\ executor = "none"
    /\ futures = <<>>
    /\ dict_linear_regressions = <<>>
    /\ klines_data = <<>>
    /\ result = NoResult
    /\ error = NoError
    /\ new_prices = <<>>
    /\ undistributed_price_index = NoIndex
    /\ results = <<>>
    /\ progress_bar = NoProgressBar
    /\ saved_str = <<>>

\* the arguments of PeaceDisarray(single_symbol_prices,
\* values_to_linear_regression), before the constructor has checked them
InitTest ==
    /\ op = "test"
    /\ pc = "construct"
    /\ \/ /\ \E n \in 1..MaxN : prices \in PriceTuples(n)
          /\ values_to_linear_regression \in 0..(Len(prices) + 1)
          /\ cpu_count \in 1..MaxCpu
          /\ regression_coefficient \in Coefficients
       \/ /\ prices = LinearPrices(BigN, 1, 3)
          /\ values_to_linear_regression = 2
          /\ cpu_count = 2
          /\ regression_coefficient = "a"
    /\ start_str = None
    /\ end_str = None
    /\ InitCommon

InitDownload ==
    /\ op = "download"
    /\ pc = "call"
    /\ start_str \in DateStrs
    /\ end_str \in DateStrs
    /\ Len(get_monthly_tuples(start_str, end_str)) <= MaxMonths
    /\ cpu_count \in {1, 2}
    /\ prices = <<>>
    /\ values_to_linear_regression = 0
    /\ regression_coefficient = "ab"
    /\ InitCommon

Init == InitTest \/ InitDownload

(***************************************************************************)
(* PeaceDisarray.test()                                                    *)
(***************************************************************************)
ValueError == [raised |-> TRUE, type |-> "ValueError"]

WindowAcceptedUpToSize(w, n) == w > 1 /\ w <= n

\* lines 1075-1086: the checks of values_to_linear_regression
WindowAccepted(w, n) == w > 1 /\ w < n

\* lines 1038-1090: the constructor raises ValueError or builds the instance
Construct ==
    /\ op = "test"
    /\ pc = "construct"
    /\ IF WindowAccepted(values_to_linear_regression, Len(prices))
       THEN /\ pc' = "call"
            /\ UNCHANGED error
       ELSE /\ pc' = "not_constructed"
            /\ error' = ValueError
    /\ UNCHANGED <<list_to_str_vars, op, cpu_count, prices, values_to_linear_regression,
                   regression_coefficient, start_str, end_str, step, ranges,
                   dates, manager, shared_custom, executor, futures,
                   dict_linear_regressions, klines_data, result>>

ChunkIndexes == 0..(Len(futures) - 1)

FinishedDoneOnly(f) == f.state = "done"

\* Future.done(): the task returned or raised
Finished(f) == f.state \in {"done", "failed"}

Running == {k \in ChunkIndexes : At(futures, k).state = "running"}

Collected == IF op = "test" THEN Keys(dict_linear_regressions)
                            ELSE Keys(klines_data)

\* future.result() re-raises the exception of a failed task
ResultRaises(f) == f.state = "failed"

ShutdownNoWait(fs) == TRUE

\* Executor.__exit__ is shutdown(wait=True): it returns once every submitted
\* task has finished
ShutdownWait(fs) == \A j \in 1..Len(fs) : Finished(fs[j])

AsCompletedFirstOnly(yielded, fs) == yielded >= 1

\* the loop over as_completed(futures) ends when every future was yielded
AsCompletedExhausted(yielded, fs) == yielded = Len(fs)

AfterExitSwallowed(err) == "return"

\* the with blocks do not suppress an exception: it leaves test() when pending
AfterExit(err) == IF err.raised THEN "raised" ELSE "return"

ManagerAfterExitOnSuccessOnly(err) == IF err.raised THEN "started" ELSE "shutdown"

\* CustomClassManager.__exit__ shuts the manager down, exception or not
ManagerAfterExit(err) == "shutdown"

IncreaseFromOwnCopy(pb, value) == [pb EXCEPT !.n = value]

\* ProgressBar.increase through the proxy
Increase(pb, value) == [pb EXCEPT !.n = @ + value]

\* lines 1122-1128: the stride, or ValueError when cpu_count - 1 is 0
ComputeStep ==
    /\ op = "test"
    /\ pc = "call"
    /\ IF StrideDivisor(cpu_count) = 0
       THEN /\ error' = ValueError
            /\ pc' = "raised"
            /\ UNCHANGED step
       ELSE /\ step' = Stride(Len(prices), cpu_count)
            /\ pc' = "ranges"
            /\ UNCHANGED error
    /\ UNCHANGED <<list_to_str_vars, op, cpu_count, prices, values_to_linear_regression,
                   regression_coefficient, start_str, end_str, ranges, dates,
                   manager, shared_custom, executor, futures,
                   dict_linear_regressions, klines_data, result>>

\* lines 1130-1137: range() raises ValueError on a zero step
BuildRanges ==
    /\ op = "test"
    /\ pc = "ranges"
    /\ IF step = 0
       THEN /\ error' = ValueError
            /\ pc' = "raised"
            /\ UNCHANGED ranges
       ELSE /\ ranges' = BuildRangesFrom(values_to_linear_regression,
                                         Len(prices), step)
            /\ pc' = "manager"
            /\ UNCHANGED error
    /\ UNCHANGED <<list_to_str_vars, op, cpu_count, prices, values_to_linear_regression,
                   regression_coefficient, start_str, end_str, step, dates,
                   manager, shared_custom, executor, futures,
                   dict_linear_regressions, klines_data, result>>

StartManagerReusing ==
    /\ op = "test"
    /\ pc = "manager"
    /\ manager' = "started"
    /\ shared_custom' =
           IF shared_custom.created THEN shared_custom
           ELSE [created |-> TRUE, n |-> 0,
                 total |-> Len(prices) - values_to_linear_regression]
    /\ pc' = "submit"
    /\ UNCHANGED <<list_to_str_vars, op, cpu_count, prices, values_to_linear_regression,
                   regression_coefficient, start_str, end_str, step, ranges,
                   dates, executor, futures, dict_linear_regressions,
                   klines_data, result, error>>

\* lines 1139-1144: the manager starts and creates the shared ProgressBar
StartManager ==
    /\ op = "test"
    /\ pc = "manager"
    /\ manager' = "started"
    /\ shared_custom' = [created |-> TRUE, n |-> 0,
                         total |-> Len(prices) - values_to_linear_regression]
    /\ pc' = "submit"
    /\ UNCHANGED <<list_to_str_vars, op, cpu_count, prices, values_to_linear_regression,
                   regression_coefficient, start_str, end_str, step, ranges,
                   dates, executor, futures, dict_linear_regressions,
                   klines_data, result, error>>

NewRegressionTaskUnindexed(index_of_range, range_of_indexes) ==
    [state |-> "pending",
     index_of_range |-> 0,
     range_of_indexes |-> range_of_indexes,
     index |-> 0, current_index |-> 0, ending_index |-> 0, counter |-> 0,
     regression_coefficients |-> <<>>,
     sent |-> <<>>,
     result |-> <<>>,
     exception |-> None]

\* the arguments of executor.submit(self.calculate_regression, index_of_range,
\* range_of_indexes) and the locals of the task
NewRegressionTask(index_of_range, range_of_indexes) ==
    [state |-> "pending",
     index_of_range |-> index_of_range,
     range_of_indexes |-> range_of_indexes,
     index |-> 0, current_index |-> 0, ending_index |-> 0, counter |-> 0,
     regression_coefficients |-> <<>>,
     sent |-> <<>>,
     result |-> <<>>,
     exception |-> None]

\* lines 1145-1149: one task per range, submitted in the order of ranges
Submit ==
    /\ op = "test"
    /\ pc = "submit"
    /\ executor' = "open"
    /\ futures' = [j \in 1..Len(ranges) |-> NewRegressionTask(j - 1, ranges[j])]
    /\ pc' = "collect"
    /\ UNCHANGED <<list_to_str_vars, op, cpu_count, prices, values_to_linear_regression,
                   regression_coefficient, start_str, end_str, step, ranges,
                   dates, manager, shared_custom, dict_linear_regressions,
                   klines_data, result, error>>

\* a worker process of the pool takes a pending task: lines 1196-1199
StartTask(k) ==
    /\ op = "test"
    /\ executor = "open"
    /\ At(futures, k).state = "pending"
    /\ Cardinality(Running) < cpu_count
    /\ LET f == At(futures, k)
           first == At(f.range_of_indexes, 0)
           last == f.range_of_indexes[Len(f.range_of_indexes)]
       IN  futures' = [futures EXCEPT ![k + 1] =
               [f EXCEPT !.state = "running", !.index = first,
                         !.current_index = first, !.ending_index = last,
                         !.counter = 0, !.regression_coefficients = <<>>]]
    /\ UNCHANGED <<list_to_str_vars, op, cpu_count, prices, values_to_linear_regression,
                   regression_coefficient, start_str, end_str, pc, step,
                   ranges, dates, manager, shared_custom, executor,
                   dict_linear_regressions, klines_data, result, error>>

\* one pass of the loop of lines 1200-1218
RegressionIteration(k) ==
    /\ op = "test"
    /\ At(futures, k).state = "running"
    /\ At(futures, k).index < At(futures, k).ending_index
    /\ LET f == At(futures, k)
           counter == f.counter + 1
           value == coefficient(Window(prices, f.index,
                                       values_to_linear_regression),
                                regression_coefficient)
           g == [f EXCEPT !.regression_coefficients = Append(@, value),
                          !.index = @ + 1]
       IN  IF counter - BATCH = 0
           THEN /\ shared_custom' = Increase(shared_custom, BATCH)
                /\ futures' = [futures EXCEPT ![k + 1] =
                       [g EXCEPT !.counter = 0, !.current_index = f.index,
                                 !.sent = Append(@, BATCH)]]
           ELSE /\ futures' = [futures EXCEPT ![k + 1] =
                       [g EXCEPT !.counter = counter]]
                /\ UNCHANGED shared_custom
    /\ UNCHANGED <<list_to_str_vars, op, cpu_count, prices, values_to_linear_regression,
                   regression_coefficient, start_str, end_str, pc, step,
                   ranges, dates, manager, executor,
                   dict_linear_regressions, klines_data, result, error>>

LastIncreaseAllComputed(f) == Len(f.regression_coefficients)

\* line 1220: the value of the increase after the loop
LastIncrease(f) == f.ending_index - f.current_index

\* lines 1220-1221 and 1188: the last increase and the task's return value
RegressionReturn(k) ==
    /\ op = "test"
    /\ At(futures, k).state = "running"
    /\ At(futures, k).index >= At(futures, k).ending_index
    /\ LET f == At(futures, k)
           value == LastIncrease(f)
       IN  /\ shared_custom' = Increase(shared_custom, value)
           /\ futures' = [futures EXCEPT ![k + 1] =
                  [f EXCEPT !.state = "done", !.sent = Append(@, value),
                            !.result = <<f.index_of_range,
                                         f.regression_coefficients>>]]
    /\ UNCHANGED <<list_to_str_vars, op, cpu_count, prices, values_to_linear_regression,
                   regression_coefficient, start_str, end_str, pc, step,
                   ranges, dates, manager, executor,
                   dict_linear_regressions, klines_data, result, error>>

\* an uncaught error inside the compute function of a chunk
RegressionRaise(k) ==
    /\ op = "test"
    /\ At(futures, k).state = "running"
    /\ futures' = [futures EXCEPT ![k + 1] =
           [At(futures, k) EXCEPT !.state = "failed",
                                  !.exception = "MemoryError"]]
    /\ UNCHANGED <<list_to_str_vars, op, cpu_count, prices, values_to_linear_regression,
                   regression_coefficient, start_str, end_str, pc, step,
                   ranges, dates, manager, shared_custom, executor,
                   dict_linear_regressions, klines_data, result, error>>

\* lines 1151-1153: as_completed yields a finished future; result() either
\* raises its exception or gives the pair stored under its first element
Collect(k) ==
    /\ op = "test"
    /\ pc = "collect"
    /\ Finished(At(futures, k))
    /\ k \notin Collected
    /\ LET f == At(futures, k)
       IN  IF ResultRaises(f)
           THEN /\ error' = [raised |-> TRUE, type |-> f.exception]
                /\ pc' = "exit_executor"
                /\ UNCHANGED dict_linear_regressions
           ELSE /\ dict_linear_regressions' =
                       DictPut(dict_linear_regressions, f.result[1], f.result[2])
                /\ pc' = IF AsCompletedExhausted(Cardinality(Collected) + 1,
                                                  futures)
                         THEN "exit_executor" ELSE "collect"
                /\ UNCHANGED error
    /\ UNCHANGED <<list_to_str_vars, op, cpu_count, prices, values_to_linear_regression,
                   regression_coefficient, start_str, end_str, step, ranges,
                   dates, manager, shared_custom, executor, futures,
                   klines_data, result>>

\* leaving the executor's with block: shutdown(wait=True) joins every task
ExitExecutor ==
    /\ op = "test"
    /\ pc = "exit_executor"
    /\ ShutdownWait(futures)
    /\ executor' = "shutdown"
    /\ pc' = "exit_manager"
    /\ UNCHANGED <<list_to_str_vars, op, cpu_count, prices, values_to_linear_regression,
                   regression_coefficient, start_str, end_str, step, ranges,
                   dates, manager, shared_custom, futures,
                   dict_linear_regressions, klines_data, result, error>>

\* leaving the manager's with block; a pending exception leaves test() here
ExitManager ==
    /\ op = "test"
    /\ pc = "exit_manager"
    /\ manager' = ManagerAfterExit(error)
    /\ pc' = AfterExit(error)
    /\ UNCHANGED <<list_to_str_vars, op, cpu_count, prices, values_to_linear_regression,
                   regression_coefficient, start_str, end_str, step, ranges,
                   dates, shared_custom, executor, futures,
                   dict_linear_regressions, klines_data, result, error>>

\* line 1155
Return ==
    /\ op = "test"
    /\ pc = "return"
    /\ result' = [returned |-> TRUE, value |-> MergeSorted(dict_linear_regressions)]
    /\ pc' = "returned"
    /\ UNCHANGED <<list_to_str_vars, op, cpu_count, prices, values_to_linear_regression,
                   regression_coefficient, start_str, end_str, step, ranges,
                   dates, manager, shared_custom, executor, futures,
                   dict_linear_regressions, klines_data, error>>

\* a further call of test() on the same instance: the locals of the earlier
\* call are gone, self.shared_custom still holds the proxy that call created
CallAgain ==
    /\ op = "test"
    /\ pc \in {"returned", "raised"}
    /\ pc' = "call"
    /\ step' = 0
    /\ ranges' = <<>>
    /\ manager' = "none"
    /\ executor' = "none"
    /\ futures' = <<>>
    /\ dict_linear_regressions' = <<>>
    /\ result' = NoResult
    /\ error' = NoError
    /\ UNCHANGED <<list_to_str_vars, op, cpu_count, prices, values_to_linear_regression,
                   regression_coefficient, start_str, end_str, dates,
                   shared_custom, klines_data>>

NextTest ==
    \/ Construct
    \/ ComputeStep
    \/ BuildRanges
    \/ StartManager
    \/ Submit
    \/ \E k \in ChunkIndexes : StartTask(k)
    \/ \E k \in ChunkIndexes : RegressionIteration(k)
    \/ \E k \in ChunkIndexes : RegressionReturn(k)
    \/ \E k \in ChunkIndexes : RegressionRaise(k)
    \/ \E k \in ChunkIndexes : Collect(k)
    \/ ExitExecutor
    \/ ExitManager
    \/ Return
    \/ CallAgain

(***************************************************************************)
(* BinanceData.download_klines() with both dates given                     *)
(***************************************************************************)
WEIGHT_EXCEEDED_CODE == -1003
NO_PERMISSIONS_CODE == -2015
INVALID_SYMBOL_CODE == -1121
UNKNOWN_CODE == -1000

ApiCodes == {WEIGHT_EXCEEDED_CODE, NO_PERMISSIONS_CODE, INVALID_SYMBOL_CODE,
             UNKNOWN_CODE}

\* the exception general_exception raises for a code that is not retried
FatalError(code) ==
    IF code = NO_PERMISSIONS_CODE THEN "IncorrectIPError"
    ELSE IF code = INVALID_SYMBOL_CODE THEN "InvalidSymbolError"
    ELSE "Exception"

TransientErrors == {"ConnectionError", "ReadTimeout"}

\* what one call of the api callable did: it returned or raised
Returned == [kind |-> "return", code |-> 0]
Raised(kind, code) == [kind |-> kind, code |-> code]

ContinueRaises(f, exc) ==
    [f EXCEPT !.state = "failed", !.attempts = @ + 1, !.exception = exc,
              !.calls = Append(@, Raised(exc, 0))]

\* lines 329-330: the except clause of the transient errors is "continue"
Continue(f, exc) ==
    [f EXCEPT !.attempts = @ + 1, !.calls = Append(@, Raised(exc, 0))]

\* lines 230-237: IncorrectIPError() asks api.ipify.org for the public IP
\* with requests.get; when that request raises, its exception is what leaves
\* the constructor
IncorrectIPErrorRaised(ip_lookup) ==
    IF ip_lookup = "ok" THEN "IncorrectIPError" ELSE ip_lookup

\* datetime.datetime.now() as the waiting loop reads it: the minute, counted
\* from the minute in which the weight limit was exceeded, and the second
StartOfWait(second) == [minute |-> 0, second |-> second]

\* the seconds of a minute the model tells apart, in the order of the clock
Seconds == <<0, 1, 4, 5, 59>>

\* the clock at the next reading that differs
Advance(clock) ==
    LET j == CHOOSE i \in 1..Len(Seconds) : Seconds[i] = clock.second
    IN  IF j = Len(Seconds)
        THEN [minute |-> clock.minute + 1, second |-> Seconds[1]]
        ELSE [clock EXCEPT !.second = Seconds[j + 1]]

\* line 345: the loop of wait_till_the_next_minute ends when the second
\* read is in range(1, 5)
WaitOver(clock) == clock.second \in 1..4

\* lines 538-542
GetMonthlyTuples ==
    /\ op = "download"
    /\ pc = "call"
    /\ dates' = get_monthly_tuples(start_str, end_str)
    /\ pc' = "dl_submit"
    /\ UNCHANGED <<list_to_str_vars, op, cpu_count, prices, values_to_linear_regression,
                   regression_coefficient, start_str, end_str, step, ranges,
                   manager, shared_custom, executor, futures,
                   dict_linear_regressions, klines_data, result, error>>

NewDownloadTask(date_index, date_pair) ==
    [state |-> "pending",
     date_index |-> date_index,
     start_str |-> date_pair[1],
     end_str |-> date_pair[2],
     attempts |-> 0,
     calls |-> <<>>,
     clock |-> StartOfWait(0),
     waits |-> <<>>,
     result |-> <<>>,
     exception |-> None]

\* lines 545-557: one task per date pair, submitted in the order of dates
DownloadSubmit ==
    /\ op = "download"
    /\ pc = "dl_submit"
    /\ executor' = "open"
    /\ futures' = [j \in 1..Len(dates) |-> NewDownloadTask(j - 1, dates[j])]
    /\ pc' = IF Len(dates) = 0 THEN "dl_merge" ELSE "dl_collect"
    /\ UNCHANGED <<list_to_str_vars, op, cpu_count, prices, values_to_linear_regression,
                   regression_coefficient, start_str, end_str, step, ranges,
                   dates, manager, shared_custom, dict_linear_regressions,
                   klines_data, result, error>>

\* a worker process of the pool takes a pending download_data_for_date_range
FetchStart(k) ==
    /\ op = "download"
    /\ executor = "open"
    /\ At(futures, k).state = "pending"
    /\ Cardinality(Running) < cpu_count
    /\ futures' = [futures EXCEPT ![k + 1] =
           [At(futures, k) EXCEPT !.state = "running"]]
    /\ UNCHANGED <<list_to_str_vars, op, cpu_count, prices, values_to_linear_regression,
                   regression_coefficient, start_str, end_str, pc, step,
                   ranges, dates, manager, shared_custom, executor,
                   dict_linear_regressions, klines_data, result, error>>

\* line 316 and 633: the api callable returns
ApiReturn(k) ==
    /\ op = "download"
    /\ At(futures, k).state = "running"
    /\ LET f == At(futures, k)
       IN  futures' = [futures EXCEPT ![k + 1] =
               [f EXCEPT !.state = "done", !.attempts = @ + 1,
                         !.calls = Append(@, Returned),
                         !.result = <<f.date_index,
                                      Klines(f.start_str, f.end_str)>>]]
    /\ UNCHANGED <<list_to_str_vars, op, cpu_count, prices, values_to_linear_regression,
                   regression_coefficient, start_str, end_str, pc, step,
                   ranges, dates, manager, shared_custom, executor,
                   dict_linear_regressions, klines_data, result, error>>

\* lines 329-330: ConnectionError or ReadTimeout, the loop continues
ApiTransient(k, exc) ==
    /\ op = "download"
    /\ At(futures, k).state = "running"
    /\ At(futures, k).attempts + 1 < MaxAttempts
    /\ futures' = [futures EXCEPT ![k + 1] = Continue(At(futures, k), exc)]
    /\ UNCHANGED <<list_to_str_vars, op, cpu_count, prices, values_to_linear_regression,
                   regression_coefficient, start_str, end_str, pc, step,
                   ranges, dates, manager, shared_custom, executor,
                   dict_linear_regressions, klines_data, result, error>>

\* lines 317-328: BinanceAPIException with the given code; ip_lookup is the
\* outcome of the request made while IncorrectIPError is built, second the
\* second of the clock when wait_till_the_next_minute is entered
ApiException(k, code, ip_lookup, second) ==
    /\ op = "download"
    /\ At(futures, k).state = "running"
    /\ code # NO_PERMISSIONS_CODE => ip_lookup = "ok"
    /\ code # WEIGHT_EXCEEDED_CODE => second = 0
    /\ LET f == At(futures, k)
           g == [f EXCEPT !.attempts = @ + 1,
                          !.calls = Append(@, Raised("BinanceAPIException", code))]
       IN  IF code = WEIGHT_EXCEEDED_CODE
           THEN /\ f.attempts + 1 < MaxAttempts
                /\ futures' = [futures EXCEPT ![k + 1] =
                       [g EXCEPT !.state = "waiting",
                                 !.clock = StartOfWait(second)]]
           ELSE futures' = [futures EXCEPT ![k + 1] =
                       [g EXCEPT !.state = "failed",
                                 !.exception =
                                     IF code = NO_PERMISSIONS_CODE
                                     THEN IncorrectIPErrorRaised(ip_lookup)
                                     ELSE FatalError(code)]]
    /\ UNCHANGED <<list_to_str_vars, op, cpu_count, prices, values_to_linear_regression,
                   regression_coefficient, start_str, end_str, pc, step,
                   ranges, dates, manager, shared_custom, executor,
                   dict_linear_regressions, klines_data, result, error>>

\* lines 345-346: the second read is not in range(1, 5), the loop goes on
\* and time passes
WaitLoop(k) ==
    /\ op = "download"
    /\ At(futures, k).state = "waiting"
    /\ ~WaitOver(At(futures, k).clock)
    /\ futures' = [futures EXCEPT ![k + 1] =
           [At(futures, k) EXCEPT !.clock = Advance(@)]]
    /\ UNCHANGED <<list_to_str_vars, op, cpu_count, prices, values_to_linear_regression,
                   regression_coefficient, start_str, end_str, pc, step,
                   ranges, dates, manager, shared_custom, executor,
                   dict_linear_regressions, klines_data, result, error>>

\* lines 345-348: wait_till_the_next_minute returns, the loop of
\* general_exception continues; waits records the minutes that passed
NextMinute(k) ==
    /\ op = "download"
    /\ At(futures, k).state = "waiting"
    /\ WaitOver(At(futures, k).clock)
    /\ futures' = [futures EXCEPT ![k + 1] =
           [At(futures, k) EXCEPT !.state = "running",
                                  !.waits = Append(@, At(futures, k).clock.minute),
                                  !.clock = StartOfWait(0)]]
    /\ UNCHANGED <<list_to_str_vars, op, cpu_count, prices, values_to_linear_regression,
                   regression_coefficient, start_str, end_str, pc, step,
                   ranges, dates, manager, shared_custom, executor,
                   dict_linear_regressions, klines_data, result, error>>

\* lines 559-561
DownloadCollect(k) ==
    /\ op = "download"
    /\ pc = "dl_collect"
    /\ Finished(At(futures, k))
    /\ k \notin Collected
    /\ LET f == At(futures, k)
       IN  IF ResultRaises(f)
           THEN /\ error' = [raised |-> TRUE, type |-> f.exception]
                /\ pc' = "dl_exit_executor"
                /\ UNCHANGED klines_data
           ELSE /\ klines_data' = DictPut(klines_data, f.result[1], f.result[2])
                /\ pc' = IF AsCompletedExhausted(Cardinality(Collected) + 1,
                                                  futures)
                         THEN "dl_merge" ELSE "dl_collect"
                /\ UNCHANGED error
    /\ UNCHANGED <<list_to_str_vars, op, cpu_count, prices, values_to_linear_regression,
                   regression_coefficient, start_str, end_str, step, ranges,
                   dates, manager, shared_custom, executor, futures,
                   dict_linear_regressions, result>>

\* lines 563-566: merge by sorted key, leave the with block, return
DownloadReturn ==
    /\ op = "download"
    /\ pc = "dl_merge"
    /\ ShutdownWait(futures)
    /\ executor' = "shutdown"
    /\ result' = [returned |-> TRUE, value |-> MergeSorted(klines_data)]
    /\ pc' = "returned"
    /\ UNCHANGED <<list_to_str_vars, op, cpu_count, prices, values_to_linear_regression,
                   regression_coefficient, start_str, end_str, step, ranges,
                   dates, manager, shared_custom, futures,
                   dict_linear_regressions, klines_data, error>>

\* the exception leaves the with block after shutdown(wait=True)
DownloadExitExecutor ==
    /\ op = "download"
    /\ pc = "dl_exit_executor"
    /\ ShutdownWait(futures)
    /\ executor' = "shutdown"
    /\ pc' = "raised"
    /\ UNCHANGED <<list_to_str_vars, op, cpu_count, prices, values_to_linear_regression,
                   regression_coefficient, start_str, end_str, step, ranges,
                   dates, manager, shared_custom, futures,
                   dict_linear_regressions, klines_data, result, error>>

NextDownload ==
    \/ GetMonthlyTuples
    \/ DownloadSubmit
    \/ \E k \in ChunkIndexes : FetchStart(k)
    \/ \E k \in ChunkIndexes : ApiReturn(k)
    \/ \E k \in ChunkIndexes, exc \in TransientErrors : ApiTransient(k, exc)
    \/ \E k \in ChunkIndexes, code \in ApiCodes,
          ip_lookup \in {"ok", "ConnectionError"},
          second \in {Seconds[j] : j \in 1..Len(Seconds)} :
              ApiException(k, code, ip_lookup, second)
    \/ \E k \in ChunkIndexes : WaitLoop(k)
    \/ \E k \in ChunkIndexes : NextMinute(k)
    \/ \E k \in ChunkIndexes : DownloadCollect(k)
    \/ DownloadReturn
    \/ DownloadExitExecutor

Next == NextTest \/ NextDownload

Spec == Init /\ [][Next]_vars

(***************************************************************************)
(* test() under fair scheduling                                            *)
(***************************************************************************)
\* the process that called test() takes its next step
CallerStep ==
    \/ Construct
    \/ ComputeStep
    \/ BuildRanges
    \/ StartManager
    \/ Submit
    \/ \E k \in ChunkIndexes : Collect(k)
    \/ ExitExecutor
    \/ ExitManager
    \/ Return

\* the pool hands a pending task to a free worker process
PoolStep == \E k \in ChunkIndexes : StartTask(k)

\* the worker of chunk k goes on with its compute call
WorkerStep(k) ==
    /\ k \in ChunkIndexes
    /\ (RegressionIteration(k) \/ RegressionReturn(k))

\* a step of the caller, of the pool or of a worker
FairStep ==
    \/ CallerStep
    \/ PoolStep
    \/ \E k \in ChunkIndexes : WorkerStep(k)

\* the operating system does not stop all processes while one of them can
\* take a step (weaker than fairness to each process); an error in a
\* compute call and a further call of test() may or may not happen
Fairness == WF_vars(FairStep)

\* the instances of the fair runs: one price shape and one selector (no
\* step of test() branches on a price or on the selector), every small
\* size, window and cpu count
InitTestFair ==
    /\ op = "test"
    /\ pc = "construct"
    /\ \E n \in 1..MaxN : prices = LinearPrices(n, 1, 3)
    /\ values_to_linear_regression \in 0..(Len(prices) + 1)
    /\ cpu_count \in 1..MaxCpu
    /\ regression_coefficient = "a"
    /\ start_str = None
    /\ end_str = None
    /\ InitCommon

SpecTestFair == InitTestFair /\ [][NextTest]_vars /\ Fairness

(***************************************************************************)
(* list_to_str.py: Main.main()                                             *)
(***************************************************************************)
MaxPrices == 6     \* largest len(prices) of list_to_str

Digit(d) == <<"0", "1", "2", "3", "4", "5", "6", "7", "8", "9">>[d + 1]

RECURSIVE Digits(_)
Digits(n) ==
    IF n < 10 THEN <<Digit(n)>> ELSE Digits(n \div 10) \o <<Digit(n % 10)>>

\* str(value) of a float with one decimal place, as a sequence of characters:
\* str(9.5) is "9.5", str(10.0) is "10.0"
str(value) ==
    LET tenths == (value[1] * 10) \div value[2]
    IN  Digits(tenths \div 10) \o <<".">> \o Digits(tenths % 10)

\* json.loads of the file: n different floats, 9.5, 10.0, 10.5, ...
FilePrices(n) == [j \in 1..n |-> Rat(95 + 5 * (j - 1), 10)]

\* lines 175-181: the loop over enumerate(prices) from index on
RECURSIVE DistributeFrom(_, _, _, _, _, _)
DistributeFrom(ps, index, lists, undistributed, per_thread, cpus) ==
    IF index >= Len(ps)
    THEN [new_prices |-> lists, undistributed_price_index |-> undistributed]
    ELSE LET price == At(ps, index)
         IN  IF Len(lists[Len(lists)]) < per_thread
             THEN DistributeFrom(ps, index + 1,
                      [lists EXCEPT ![Len(lists)] = Append(@, price)],
                      undistributed, per_thread, cpus)
             ELSE IF Len(lists) < cpus
             THEN DistributeFrom(ps, index + 1, Append(lists, <<price>>),
                      undistributed, per_thread, cpus)
             ELSE DistributeFrom(ps, index + 1, lists, SomeIndex(index),
                      per_thread, cpus)

\* lines 183-184: the loop over enumerate(prices[undistributed_price_index:])
RECURSIVE AppendFrom(_, _, _, _)
AppendFrom(rest, index, lists, cpus) ==
    IF index >= Len(rest) THEN lists
    ELSE AppendFrom(rest, index + 1,
             [lists EXCEPT ![(index % cpus) + 1] = Append(@, At(rest, index))],
             cpus)

\* prices[start:]
SliceFrom(ps, start) == SubSeq(ps, start + 1, Len(ps))

\* lines 172-184: new_prices and undistributed_price_index after both loops
Distribute(ps, cpus) ==
    LET d == DistributeFrom(ps, 0, <<<<>>>>, NoIndex, Len(ps) \div cpus, cpus)
    IN  IF ~d.undistributed_price_index.is_none
        THEN [d EXCEPT !.new_prices =
                 AppendFrom(SliceFrom(ps, d.undistributed_price_index.value), 0,
                            d.new_prices, cpus)]
        ELSE d

\* the arguments of executor.submit(create_string, values, progress_bar,
\* index) and the locals of the task
NewStringTask(index, values) ==
    [state |-> "pending",
     index |-> index,
     values |-> values,
     position |-> 0,
     return_str |-> <<>>,
     result |-> <<>>,
     yielded |-> FALSE,
     exception |-> None]

TypeError == [raised |-> TRUE, type |-> "TypeError"]

\* lines 202-204: the concatenation of results from slot on; a slot that still
\* holds None makes "saved_str += result" raise TypeError
RECURSIVE ConcatenateFrom(_, _, _)
ConcatenateFrom(rs, slot, acc) ==
    IF slot >= Len(rs) THEN [saved_str |-> acc, error |-> NoError]
    ELSE IF At(rs, slot).is_none
    THEN [saved_str |-> acc, error |-> TypeError]
    ELSE ConcatenateFrom(rs, slot + 1, acc \o At(rs, slot).value)

\* the file has been read: prices of every small length on every small machine
InitListToStr ==
    /\ op = "list_to_str"
    /\ pc = "distribute"
    /\ \E n \in 0..MaxPrices : prices = FilePrices(n)
    /\ cpu_count \in 1..MaxCpu
    /\ values_to_linear_regression = 0
    /\ regression_coefficient = "ab"
    /\ start_str = None
    /\ end_str = None
    /\ InitCommon

\* lines 172-184
DistributePrices ==
    /\ op = "list_to_str"
    /\ pc = "distribute"
    /\ new_prices' = Distribute(prices, cpu_count).new_prices
    /\ undistributed_price_index' =
           Distribute(prices, cpu_count).undistributed_price_index
    /\ pc' = "manager"
    /\ UNCHANGED <<op, cpu_count, prices, values_to_linear_regression,
                   regression_coefficient, start_str, end_str, step, ranges,
                   dates, manager, shared_custom, executor, futures,
                   dict_linear_regressions, klines_data, result, error,
                   results, progress_bar, saved_str>>

\* lines 186-190: results gets one None per cpu, the manager starts and
\* creates the shared ProgressBar
StartShareManager ==
    /\ op = "list_to_str"
    /\ pc = "manager"
    /\ results' = [j \in 1..cpu_count |-> NoString]
    /\ manager' = "started"
    /\ progress_bar' = [created |-> TRUE, n |-> 0, total |-> Len(prices)]
    /\ pc' = "submit"
    /\ UNCHANGED <<op, cpu_count, prices, values_to_linear_regression,
                   regression_coefficient, start_str, end_str, step, ranges,
                   dates, shared_custom, executor, futures,
                   dict_linear_regressions, klines_data, result, error,
                   new_prices, undistributed_price_index, saved_str>>

\* lines 192-196: one task per list of new_prices, in the order of new_prices
SubmitStrings ==
    /\ op = "list_to_str"
    /\ pc = "submit"
    /\ executor' = "open"
    /\ futures' = [j \in 1..Len(new_prices) |->
                      NewStringTask(j - 1, new_prices[j])]
    /\ pc' = "collect"
    /\ UNCHANGED <<list_to_str_vars, op, cpu_count, prices,
                   values_to_linear_regression, regression_coefficient,
                   start_str, end_str, step, ranges, dates, manager,
                   shared_custom, dict_linear_regressions, klines_data,
                   result, error>>

\* a worker process of the pool takes a pending task: line 158
StartString(k) ==
    /\ op = "list_to_str"
    /\ executor = "open"
    /\ At(futures, k).state = "pending"
    /\ Cardinality(Running) < cpu_count
    /\ futures' = [futures EXCEPT ![k + 1] =
           [At(futures, k) EXCEPT !.state = "running", !.position = 0,
                                  !.return_str = <<>>]]
    /\ UNCHANGED <<list_to_str_vars, op, cpu_count, prices,
                   values_to_linear_regression, regression_coefficient,
                   start_str, end_str, pc, step, ranges, dates, manager,
                   shared_custom, executor, dict_linear_regressions,
                   klines_data, result, error>>

\* one pass of the loop of lines 159-161
CreateStringIteration(k) ==
    /\ op = "list_to_str"
    /\ At(futures, k).state = "running"
    /\ At(futures, k).position < Len(At(futures, k).values)
    /\ LET f == At(futures, k)
           value == At(f.values, f.position)
       IN  futures' = [futures EXCEPT ![k + 1] =
               [f EXCEPT !.return_str = @ \o str(value) \o <<" ">>,
                         !.position = @ + 1]]
    /\ progress_bar' = Increase(progress_bar, 1)
    /\ UNCHANGED <<op, cpu_count, prices, values_to_linear_regression,
                   regression_coefficient, start_str, end_str, pc, step,
                   ranges, dates, manager, shared_custom, executor,
                   dict_linear_regressions, klines_data, result, error,
                   new_prices, undistributed_price_index, results, saved_str>>

\* line 163
CreateStringReturn(k) ==
    /\ op = "list_to_str"
    /\ At(futures, k).state = "running"
    /\ At(futures, k).position >= Len(At(futures, k).values)
    /\ futures' = [futures EXCEPT ![k + 1] =
           [At(futures, k) EXCEPT
                !.state = "done",
                !.result = <<At(futures, k).index, At(futures, k).return_str>>]]
    /\ UNCHANGED <<list_to_str_vars, op, cpu_count, prices,
                   values_to_linear_regression, regression_coefficient,
                   start_str, end_str, pc, step, ranges, dates, manager,
                   shared_custom, executor, dict_linear_regressions,
                   klines_data, result, error>>

\* the futures as_completed has yielded so far
Yielded == {k \in ChunkIndexes : At(futures, k).yielded}

\* lines 198-200: as_completed yields a finished future and its string goes
\* to the slot of its index
CollectString(k) ==
    /\ op = "list_to_str"
    /\ pc = "collect"
    /\ Finished(At(futures, k))
    /\ k \notin Yielded
    /\ LET future_result == At(futures, k).result
       IN  results' = [results EXCEPT
                          ![future_result[1] + 1] = SomeString(future_result[2])]
    /\ futures' = [futures EXCEPT ![k + 1] =
           [At(futures, k) EXCEPT !.yielded = TRUE]]
    /\ UNCHANGED <<op, cpu_count, prices, values_to_linear_regression,
                   regression_coefficient, start_str, end_str, pc, step,
                   ranges, dates, manager, shared_custom, executor,
                   dict_linear_regressions, klines_data, result, error,
                   new_prices, undistributed_price_index, progress_bar,
                   saved_str>>

\* as_completed is exhausted; leaving both with blocks (lines 189-200)
ExitBlocks ==
    /\ op = "list_to_str"
    /\ pc = "collect"
    /\ Yielded = ChunkIndexes
    /\ executor' = "shutdown"
    /\ manager' = "shutdown"
    /\ pc' = "concatenate"
    /\ UNCHANGED <<list_to_str_vars, op, cpu_count, prices,
                   values_to_linear_regression, regression_coefficient,
                   start_str, end_str, step, ranges, dates, shared_custom,
                   futures, dict_linear_regressions, klines_data, result,
                   error>>

\* lines 202-208: the strings of results are concatenated in slot order and
\* written, or the concatenation raises
Concatenate ==
    /\ op = "list_to_str"
    /\ pc = "concatenate"
    /\ LET c == ConcatenateFrom(results, 0, <<>>)
       IN  /\ saved_str' = c.saved_str
           /\ error' = c.error
           /\ pc' = IF c.error.raised THEN "raised" ELSE "written"
    /\ UNCHANGED <<op, cpu_count, prices, values_to_linear_regression,
                   regression_coefficient, start_str, end_str, step, ranges,
                   dates, manager, shared_custom, executor, futures,
                   dict_linear_regressions, klines_data, result, new_prices,
                   undistributed_price_index, results, progress_bar>>

NextListToStr ==
    \/ DistributePrices
    \/ StartShareManager
    \/ SubmitStrings
    \/ \E k \in ChunkIndexes : StartString(k)
    \/ \E k \in ChunkIndexes : CreateStringIteration(k)
    \/ \E k \in ChunkIndexes : CreateStringReturn(k)
    \/ \E k \in ChunkIndexes : CollectString(k)
    \/ ExitBlocks
    \/ Concatenate

SpecListToStr == InitListToStr /\ [][NextListToStr]_vars

(***************************************************************************)
(* Properties                                                              *)
(***************************************************************************)
N == Len(prices)
W == values_to_linear_regression

\* the partition step of test() has run (it built ranges or raised)
PartitionDone ==
    op = "test" /\ pc \notin {"construct", "not_constructed", "call", "ranges"}

\* the partition step raised: no manager was ever started
PartitionRaised == op = "test" /\ pc = "raised" /\ manager = "none"

ChunkResults == Flatten([j \in 1..Len(futures) |-> futures[j].result[2]])

\* C1: for every N, start = W and cpu_count >= 1 the chunks built by test()
\* cover [start, N) exactly once: non-empty, ascending, contiguous, from
\* start to N.
C1_PartitionCompleteness ==
    (PartitionDone /\ StrideDivisor(cpu_count) # 0) =>
        /\ Flatten(ranges) = PyRange(W, N)
        /\ \A j \in 1..Len(ranges) : Len(ranges[j]) >= 1

\* C2: test() returns exactly N - W values, one per position of [W, N).
C2_OutputLength ==
    (op = "test" /\ pc = "returned") => Len(result.value) = N - W

\* C3: with N = W + 1 test() returns exactly one coefficient.
C3_DegenerateCount ==
    (op = "test" /\ pc = "returned" /\ N = W + 1) => Len(result.value) = 1

\* C4: whatever the order in which the chunk futures complete and are
\* collected, the returned sequence is the per-chunk results concatenated in
\* ascending chunk index (test() and download_klines).
C4_MergeOrderInvariance ==
    pc = "returned" => result.value = ChunkResults

\* a run of test() returned after collecting a later chunk before an earlier one
C4_Witness ==
    /\ op = "test"
    /\ pc = "returned"
    /\ Len(dict_linear_regressions) >= 2
    /\ dict_linear_regressions[1][1] > dict_linear_regressions[2][1]
    /\ dict_linear_regressions[1][2] # <<>>
    /\ dict_linear_regressions[2][2] # <<>>

\* C5: after a successful run of test() the progress counter equals N - W.
C5_ProgressTotal ==
    (op = "test" /\ pc = "returned") => shared_custom.n = N - W

\* C6: when a chunk's compute function raised, test() raises
\* ChunkComputeError and returns no merged result.
C6_FailurePropagation ==
    (op = "test" /\ pc = "raised"
       /\ \E k \in ChunkIndexes : At(futures, k).state = "failed") =>
        /\ error.type = "ChunkComputeError"
        /\ ~result.returned

\* C7: a partitioned operation is all-or-nothing: a returned sequence is
\* built from the results of all chunks and no error is raised with it; a
\* raised error comes with no returned sequence.
C7_AllOrNothing ==
    /\ result.returned =>
          /\ pc = "returned"
          /\ ~error.raised
          /\ Collected = ChunkIndexes
          /\ \A k \in ChunkIndexes : At(futures, k).state = "done"
          /\ Len(result.value) = Len(ChunkResults)
    /\ pc = "raised" => (error.raised /\ ~result.returned)
    /\ pc = "returned" => result.returned

\* a run failed after the results of some chunks had been collected
C7_Witness ==
    /\ pc = "raised"
    /\ Collected # {}
    /\ \E k \in ChunkIndexes : At(futures, k).state = "failed"

\* the value of the selected coefficient for a window on the line y = m*x + c
LineValue(coeff, m, c) ==
    CASE coeff = "a"  -> <<m, 1>>
      [] coeff = "b"  -> <<c, 1>>
      [] coeff = "ab" -> <<m + c, 1>>

\* C8: on a window whose samples lie on y = m*x + c over x = 0..W-1 the
\* regression gives a = m and b = c; so on linear prices every value computed
\* by test() is the slope m (selector 'a'), the window's intercept ('b') or
\* their sum ('ab').
C8_RegressionCorrectness ==
    \A m \in 0..MaxSlope, c \in {3} :
        (op = "test" /\ prices = LinearPrices(N, m, c)) =>
            \A k \in ChunkIndexes :
                LET f == At(futures, k)
                    lo == At(f.range_of_indexes, 0)
                IN  \A j \in 1..Len(f.regression_coefficients) :
                        f.regression_coefficients[j] =
                            LineValue(regression_coefficient, m,
                                      c + m * (lo + j - 1 - W))

\* test() returned slopes of the line y = 2x + 3 computed on windows of 5
C8_Witness ==
    /\ op = "test"
    /\ pc = "returned"
    /\ prices = LinearPrices(N, 2, 3)
    /\ W = 5
    /\ regression_coefficient = "a"
    /\ result.value # <<>>
    /\ \A j \in 1..Len(result.value) : result.value[j] = <<2, 1>>

\* C9: when the computed stride is 0 the partition step does not raise and
\* builds the single chunk [start, N).
C9_ZeroStride ==
    (PartitionDone /\ StrideDivisor(cpu_count) # 0 /\ step = 0) =>
        /\ ~PartitionRaised
        /\ ranges = <<PyRange(W, N)>>

\* C10: with cpu_count = 1 test() raises ValueError before a progress
\* tracker, a manager, a pool or a task exists.
C10_SingleCpuRaises ==
    (op = "test" /\ cpu_count = 1
       /\ pc \notin {"construct", "not_constructed", "call"}) =>
        /\ pc = "raised"
        /\ error = ValueError
        /\ manager = "none"
        /\ ~shared_custom.created
        /\ executor = "none"
        /\ futures = <<>>
        /\ ~result.returned

C10_Witness == op = "test" /\ cpu_count = 1 /\ pc = "raised"

\* C11: the last pair of get_monthly_tuples is clipped to end_date: no
\* range_end lies after end_date and the last range_end is end_date.
C11_FinalPairClipped ==
    (op = "download" /\ pc # "call" /\ dates # <<>>) =>
        /\ \A j \in 1..Len(dates) :
               ~DateLT(strptime(end_str), strptime(dates[j][2]))
        /\ strptime(dates[Len(dates)][2]) = strptime(end_str)

\* C12: with start_date >= end_date the calendar partitioner fails with
\* InvalidDomainError; no empty list of ranges and no empty result comes back.
C12_InvalidDomain ==
    (op = "download" /\ pc # "call"
       /\ ~DateLT(strptime(start_str), strptime(end_str))) =>
        /\ pc = "raised"
        /\ error.type = "InvalidDomainError"
        /\ ~result.returned

\* C13: when control returns from test() after the manager was started,
\* by return or by exception, the pool and the manager holding the progress
\* bar are shut down.
C13_Teardown ==
    (op = "test" /\ pc \in {"return", "returned", "raised"}
       /\ shared_custom.created) =>
        /\ executor = "shutdown"
        /\ manager = "shutdown"

\* test() raised the error of a chunk after pool and manager were shut down
C13_Witness ==
    /\ op = "test"
    /\ pc = "raised"
    /\ shared_custom.created
    /\ \E k \in ChunkIndexes : At(futures, k).state = "failed"
    /\ executor = "shutdown"
    /\ manager = "shutdown"

\* C18: the constructor raises ValueError when W <= 1 or W >= len(prices);
\* every constructed instance has 2 <= W < N, so [W, N) is not empty.
C18_ConstructorGuards ==
    op = "test" =>
        /\ pc = "not_constructed" =>
              /\ (W <= 1 \/ W >= N)
              /\ error = ValueError
        /\ pc \notin {"construct", "not_constructed"} =>
              /\ 2 <= W
              /\ W < N
              /\ PyRange(W, N) # <<>>

\* a window size equal to the number of prices was refused
C18_Witness ==
    /\ op = "test"
    /\ pc = "not_constructed"
    /\ W = N
    /\ error = ValueError

DownloadTasks == IF op = "download" THEN ChunkIndexes ELSE {}

\* C15: a ConnectionError or ReadTimeout of the api callable never leaves
\* general_exception: after it the callable is called again, a task fails
\* only on an api error, and the value returned is that of the one call
\* that returned.
C15_TransientRetried ==
    \A k \in DownloadTasks :
        LET f == At(futures, k)
            n == Len(f.calls)
        IN  /\ (n > 0 /\ f.calls[n].kind \in TransientErrors) =>
                   f.state = "running"
            /\ f.state = "failed" => f.calls[n].kind = "BinanceAPIException"
            /\ f.state = "done" =>
                   /\ f.calls[n] = Returned
                   /\ \A j \in 1..(n - 1) : f.calls[j] # Returned
                   /\ f.result = <<k, Klines(dates[k + 1][1], dates[k + 1][2])>>

\* download_klines returned although a call of a chunk had met a transient error
C15_Witness ==
    /\ op = "download"
    /\ pc = "returned"
    /\ \E k \in ChunkIndexes :
           /\ Len(At(futures, k).calls) >= 2
           /\ At(futures, k).calls[1].kind \in TransientErrors
           /\ At(futures, k).state = "done"

\* C16: an api error with a code other than -1003 is the last call of its
\* chunk and raises IncorrectIPError (-2015), InvalidSymbolError (-1121) or
\* Exception (other codes); a download with such a chunk ends by raising.
C16_FatalSurfacedOnce ==
    \A k \in DownloadTasks :
        LET f == At(futures, k)
        IN  \A j \in 1..Len(f.calls) :
                (f.calls[j].kind = "BinanceAPIException"
                   /\ f.calls[j].code # WEIGHT_EXCEEDED_CODE) =>
                    /\ j = Len(f.calls)
                    /\ f.state = "failed"
                    /\ f.exception =
                           CASE f.calls[j].code = -2015 -> "IncorrectIPError"
                             [] f.calls[j].code = -1121 -> "InvalidSymbolError"
                             [] OTHER -> "Exception"
                    /\ pc # "returned"

RegressionTasks == IF op = "test" THEN ChunkIndexes ELSE {}

SentBy(k) == SumSeq(At(futures, k).sent)

RECURSIVE SentByAll(_)
SentByAll(S) ==
    IF S = {} THEN 0
    ELSE LET k == CHOOSE y \in S : TRUE
         IN  SentBy(k) + SentByAll(S \ {k})

Selected(coeff, window) ==
    IF coeff = "a" THEN Coefficient_a(window)
    ELSE IF coeff = "b" THEN Coefficient_b(window)
    ELSE RatAdd(Coefficient_a(window), Coefficient_b(window))

SequentialPass ==
    [j \in 1..(N - W) |->
        Selected(regression_coefficient, Window(prices, W + j - 1, W))]

\* C19: the value for position i is the regression over prices[i-W..i-1] of
\* the full sequence, and for every worker count the result of test() equals
\* the result of one sequential pass over the positions W..N-1.
C19_EqualsSequentialPass ==
    (op = "test" /\ pc = "returned") => result.value = SequentialPass

\* the stride has been computed
StrideDone ==
    /\ op = "test"
    /\ pc \notin {"construct", "not_constructed", "call"}
    /\ cpu_count # 1

\* C20 as stated: the stride is (N - start) // P for even P and
\* (N - start) // (P - 1) for odd P.
C20_StrideOfRemaining ==
    StrideDone =>
        step = IF cpu_count % 2 = 0 THEN (N - W) \div cpu_count
                                    ELSE (N - W) \div (cpu_count - 1)

\* C20 amended: the stride is N // P for even P and N // (P - 1) for odd
\* P > 1, N the number of prices; with P = 1 no stride is computed.
C20_StrideOfLength ==
    /\ StrideDone =>
          step = IF cpu_count % 2 = 0 THEN N \div cpu_count
                                      ELSE N \div (cpu_count - 1)
    /\ (op = "test" /\ cpu_count = 1) => (step = 0 /\ pc # "ranges")

\* a stride that differs from (N - start) // P was used to build the ranges
C20_Witness ==
    /\ StrideDone
    /\ cpu_count = 3
    /\ ranges # <<>>
    /\ step = N \div 2
    /\ step # (N - W) \div 2

\* C21 as stated: every chunk but the last has exactly step positions and the
\* last chunk takes the remainder, so it has at least 1 position and is never
\* a further chunk shorter than step.
C21_LastChunkAbsorbs ==
    (op = "test" /\ ranges # <<>>) =>
        /\ \A j \in 1..(Len(ranges) - 1) : Len(ranges[j]) = step
        /\ Len(ranges[Len(ranges)]) >= 1
        /\ Len(ranges[Len(ranges)]) >= step

\* C21 amended: every chunk but the last has exactly step positions; the
\* last chunk has at least 1 and at most step positions, so a remainder
\* smaller than step is a chunk of its own.
C21_LastChunkAtMostStep ==
    (op = "test" /\ ranges # <<>>) =>
        /\ \A j \in 1..(Len(ranges) - 1) : Len(ranges[j]) = step
        /\ Len(ranges[Len(ranges)]) >= 1
        /\ Len(ranges[Len(ranges)]) <= step
        /\ Len(ranges) = (N - W + step - 1) \div step

\* test() built a full chunk followed by a shorter one that holds the remainder
C21_Witness ==
    /\ op = "test"
    /\ Len(ranges) >= 2
    /\ Len(ranges[1]) = step
    /\ Len(ranges[Len(ranges)]) < step

\* C22: the caller of test() never observes a failure while a chunk task of
\* the run is executing: when the exception leaves test(), every task that
\* had started (and every task at all) has finished.
C22_StartedWorkersFinish ==
    (op = "test" /\ pc = "raised") =>
        /\ Running = {}
        /\ \A k \in ChunkIndexes : Finished(At(futures, k))

\* the failure of a chunk has been met by the collecting loop while another
\* chunk's worker is still computing
C22_Witness ==
    /\ op = "test"
    /\ pc = "exit_executor"
    /\ error.raised
    /\ \E k \in ChunkIndexes :
           /\ At(futures, k).state = "running"
           /\ At(futures, k).regression_coefficients # <<>>

\* C23: the i-th submitted task carries chunk index i and the i-th chunk, so
\* the indices are 0..k-1, each once, and every chunk has exactly one task;
\* a returned result is keyed by the index of the chunk it was computed from,
\* and it is stored under that key (test() and download_klines).
C23_DenseChunkIndices ==
    /\ (op = "test" /\ executor # "none") =>
          /\ Len(futures) = Len(ranges)
          /\ \A k \in ChunkIndexes :
                 LET f == At(futures, k)
                 IN  /\ f.index_of_range = k
                     /\ f.range_of_indexes = ranges[k + 1]
                     /\ f.state = "done" =>
                            /\ f.result[1] = k
                            /\ f.result[2] # <<>> =>
                                   f.result[2][1] =
                                       Selected(regression_coefficient,
                                           Window(prices, At(ranges[k + 1], 0), W))
          /\ \A j \in 1..Len(dict_linear_regressions) :
                 dict_linear_regressions[j][2] =
                     At(futures, dict_linear_regressions[j][1]).result[2]
    /\ (op = "download" /\ executor # "none") =>
          /\ Len(futures) = Len(dates)
          /\ \A k \in ChunkIndexes :
                 LET f == At(futures, k)
                 IN  /\ f.date_index = k
                     /\ <<f.start_str, f.end_str>> = dates[k + 1]
                     /\ f.state = "done" =>
                            f.result = <<k, Klines(dates[k + 1][1],
                                                   dates[k + 1][2])>>
          /\ \A j \in 1..Len(klines_data) :
                 klines_data[j][2] = At(futures, klines_data[j][1]).result[2]

\* the result of the second chunk is stored under key 1 while the task of
\* the first chunk, submitted before it, is still computing
C23_Witness ==
    /\ op = "test"
    /\ pc = "collect"
    /\ Len(dict_linear_regressions) = 1
    /\ dict_linear_regressions[1][1] = 1
    /\ dict_linear_regressions[1][2] # <<>>
    /\ At(futures, 0).state = "running"
    /\ At(futures, 0).regression_coefficients # <<>>

\* C24: a worker calls increase(100) exactly once after each full batch of
\* 100 computed positions and exactly once more when the chunk is complete,
\* with the number of positions computed since the last batch; it never
\* calls increase once per position.
C24_BatchedIncrements ==
    \A k \in RegressionTasks :
        LET f == At(futures, k)
            computed == Len(f.regression_coefficients)
            batches == computed \div BATCH
        IN  /\ f.state = "running" => f.sent = [j \in 1..batches |-> BATCH]
            /\ f.state = "done" =>
                   f.sent = [j \in 1..batches |-> BATCH]
                                \o <<computed - batches * BATCH>>

\* the ProgressBar a call of test() creates
FreshProgressBar == [created |-> TRUE, n |-> 0, total |-> N - W]

\* C25: the tracker of a run exists before the first task is submitted; the
\* manager that holds it is shut down only when every task of the run has
\* finished, so no worker increases a closed tracker; and every call of
\* test() creates a tracker of its own (counter 0, total N - W), whatever
\* tracker an earlier call left on the instance.
C25_TrackerLifecycle ==
    /\ [](op = "test" =>
            /\ executor # "none" => (shared_custom.created /\ manager # "none")
            /\ manager = "shutdown" =>
                   \A k \in ChunkIndexes : Finished(At(futures, k))
            /\ Running # {} => manager = "started")
    /\ [][op = "test" =>
            /\ (pc = "manager" /\ pc' # "manager") =>
                   (shared_custom' = FreshProgressBar /\ manager' = "started")
            /\ (pc # "manager" /\ shared_custom' # shared_custom) =>
                   (manager = "started" /\ manager' = "started")]_vars

\* test() is called again and is about to create its tracker while the
\* instance still holds the closed tracker of the earlier call
C25_Witness ==
    /\ op = "test"
    /\ pc = "manager"
    /\ manager = "none"
    /\ shared_custom.created
    /\ shared_custom.n > 0

\* C26: for every instance the constructor accepts (W >= 2) the slope
\* denominator sum(x*x) - n*mean_x*mean_x over x = 0..W-1 is strictly
\* positive (it is W*(W*W - 1)/12), for the first window and for the window
\* of every value a worker computes.
C26_DenominatorPositive ==
    (op = "test" /\ pc \notin {"construct", "not_constructed"}) =>
        /\ W >= 2
        /\ LET d == SlopeDenominator(Window(prices, W, W))
           IN  /\ d[1] > 0
               /\ d[2] > 0
               /\ d = Rat(W * (W * W - 1), 12)
        /\ \A k \in ChunkIndexes :
               LET f == At(futures, k)
                   n == Len(f.regression_coefficients)
                   d == SlopeDenominator(
                            Window(prices, At(f.range_of_indexes, 0) + n - 1, W))
               IN  n > 0 => (d[1] > 0 /\ d[2] > 0)

\* a worker returned values computed on windows of 4 prices
C26_Witness ==
    /\ op = "test"
    /\ W = 4
    /\ \E k \in ChunkIndexes :
           /\ At(futures, k).state = "done"
           /\ At(futures, k).result[2] # <<>>

\* the merge of the collected results is about to run or has run
AtMerge == pc \in {"return", "dl_merge"} \/ result.returned

\* C27: the merge runs only when the result of every chunk index in
\* 0..chunk_count-1 has been collected, and the merged sequence holds the
\* values of all chunks; were an index missing at the merge, the operation
\* would end with IncompleteResultError and no sequence.
C27_MergeAfterAllCollected ==
    /\ AtMerge =>
          /\ Collected = 0..(Len(futures) - 1)
          /\ \A k \in ChunkIndexes : At(futures, k).state = "done"
    /\ result.returned =>
          Len(result.value) =
              SumSeq([j \in 1..Len(futures) |-> Len(futures[j].result[2])])
    /\ (AtMerge /\ Collected # 0..(Len(futures) - 1)) =>
          (error.type = "IncompleteResultError" /\ ~result.returned)

\* download_klines merged the results of two monthly chunks
C27_Witness ==
    /\ op = "download"
    /\ pc = "returned"
    /\ Len(futures) = 2
    /\ Keys(klines_data) = {0, 1}
    /\ Len(result.value) = 2

\* C28: an api error with code -1003 does not leave general_exception: the
\* chunk waits, makes no call while it waits, and calls the callable again
\* only after the next minute has begun.
C28_WaitsForNextMinute ==
    \A k \in DownloadTasks :
        LET f == At(futures, k)
            n == Len(f.calls)
        IN  /\ (n > 0 /\ f.calls[n] = Raised("BinanceAPIException",
                                             WEIGHT_EXCEEDED_CODE)) =>
                   f.state \in {"waiting", "running"}
            /\ f.state = "waiting" =>
                   f.calls[n] = Raised("BinanceAPIException",
                                       WEIGHT_EXCEEDED_CODE)
            /\ \A j \in 1..Len(f.waits) : f.waits[j] >= 1

\* C29: for start_date < end_date the pairs of get_monthly_tuples leave no
\* gap: the first range_start is start_date, every range_end is the next
\* pair's range_start, the range starts ascend strictly and every
\* range_start lies before end_date.
C29_NoGaps ==
    (op = "download" /\ pc # "call"
       /\ DateLT(strptime(start_str), strptime(end_str))) =>
        /\ dates # <<>>
        /\ strptime(dates[1][1]) = strptime(start_str)
        /\ \A j \in 1..(Len(dates) - 1) :
               /\ dates[j][2] = dates[j + 1][1]
               /\ DateLT(strptime(dates[j][1]), strptime(dates[j + 1][1]))
        /\ \A j \in 1..Len(dates) :
               /\ DateLT(strptime(dates[j][1]), strptime(end_str))
               /\ DateLT(strptime(dates[j][1]), strptime(dates[j][2]))

\* two monthly pairs from 31 Dec 2023, the second one ending on the cut day
\* 29 Feb 2024
C29_Witness ==
    /\ op = "download"
    /\ pc # "call"
    /\ start_str = <<31, "Dec", 2023>>
    /\ Len(dates) = 2
    /\ dates[1] = << <<31, "Dec", 2023>>, <<31, "Jan", 2024>> >>
    /\ dates[2] = << <<31, "Jan", 2024>>, <<29, "Feb", 2024>> >>

\* C30: in every reachable state of a run of test(), whatever the
\* interleaving of the workers, every increment sent to the tracker is >= 0
\* and the counter lies between 0 and the total N - W the tracker was
\* created with.
C30_CounterWithinTotal ==
    op = "test" =>
        /\ \A k \in ChunkIndexes :
               \A j \in 1..Len(At(futures, k).sent) : At(futures, k).sent[j] >= 0
        /\ shared_custom.created =>
               /\ shared_custom.total = N - W
               /\ shared_custom.n >= 0
               /\ shared_custom.n <= shared_custom.total

\* test() returned after a worker sent a full batch and a remainder, with
\* the counter just below the total
C30_Witness ==
    /\ op = "test"
    /\ pc = "returned"
    /\ \E k \in ChunkIndexes :
           /\ Len(At(futures, k).sent) = 2
           /\ At(futures, k).sent[1] = BATCH
           /\ At(futures, k).sent[2] > 0
    /\ shared_custom.n = shared_custom.total - 1

\* C31: for every chunk, the increments its worker sent to the tracker sum
\* to the number of regression values the worker returns for the chunk,
\* for chunks below and above the batch size of 100.
C31_IncrementsEqualValues ==
    \A k \in RegressionTasks :
        At(futures, k).state = "done" =>
            SentBy(k) = Len(At(futures, k).result[2])

\* C32: under fair scheduling every call of test() ends, by returning the
\* merged sequence or by raising: it does not wait forever on a future, on
\* the shutdown of the pool or on the tracker.
C32_TestTerminates ==
    (op = "test" /\ pc = "call") ~>
        \/ (pc = "returned" /\ result.returned)
        \/ (pc = "raised" /\ error.raised)

\* test() raised the error of one chunk after the worker of another chunk,
\* running at the time, had finished its values
C32_Witness ==
    /\ op = "test"
    /\ pc = "raised"
    /\ \E k1, k2 \in ChunkIndexes :
           /\ At(futures, k1).state = "failed"
           /\ At(futures, k2).state = "done"
           /\ At(futures, k2).result[2] # <<>>
           /\ k2 \notin Collected

DigitOf(ch) == CHOOSE d \in 0..9 : Digit(d) = ch

RECURSIVE DigitsValue(_)
DigitsValue(ds) ==
    IF ds = <<>> THEN 0
    ELSE DigitsValue(SubSeq(ds, 1, Len(ds) - 1)) * 10 + DigitOf(ds[Len(ds)])

\* float(token) of a token written with one decimal place
FloatOf(token) ==
    LET dot == CHOOSE j \in 1..Len(token) : token[j] = "."
    IN  Rat(DigitsValue(SubSeq(token, 1, dot - 1)) * 10
                + DigitsValue(SubSeq(token, dot + 1, Len(token))), 10)

\* the prices written in a string: its tokens, each ended by a space
RECURSIVE PricesIn(_)
PricesIn(s) ==
    IF s = <<>> THEN <<>>
    ELSE LET space == CHOOSE j \in 1..Len(s) :
                          s[j] = " " /\ \A i \in 1..(j - 1) : s[i] # " "
         IN  <<FloatOf(SubSeq(s, 1, space - 1))>>
                 \o PricesIn(SubSeq(s, space + 1, Len(s)))

ListToStrDone == op = "list_to_str" /\ pc \in {"written", "raised"}

\* C33: the string list_to_str writes holds every price of the input once,
\* in the order of the input, for every len(prices) and cpu_count.
C33_RoundTrip ==
    (op = "list_to_str" /\ pc = "written") => PricesIn(saved_str) = prices

\* C34: list_to_str builds as many per-worker lists as there are cpus, so
\* every slot of results holds a string once all futures are collected and
\* the concatenation does not meet a None.
C34_EverySlotFilled ==
    /\ (op = "list_to_str" /\ pc \notin {"distribute"}) =>
           Len(new_prices) = cpu_count
    /\ (op = "list_to_str" /\ pc \in {"concatenate", "written", "raised"}) =>
           /\ \A j \in 1..Len(results) : ~results[j].is_none
           /\ ~error.raised

====
